---- MODULE Spec2Model ----
(***************************************************************************)
(* LaTa: the Taskfile launcher of src/lata/__main__.py.                    *)
(*                                                                         *)
(* Directories are numbered.  0 is the current working directory and k is  *)
(* its k-th ancestor (Path.cwd().parents[k-1]); cwdDepth is the number of  *)
(* ancestors, so directory cwdDepth is the filesystem root.  The caller    *)
(* directory, the home directory, the package directory and the directory  *)
(* of an explicit command-line path have numbers above MaxDepth unless     *)
(* they coincide with a directory of the chain.                            *)
(*                                                                         *)
(* Text (a line typed at a prompt, a choice, the collected input) is a     *)
(* sequence of one-character strings.                                      *)
(***************************************************************************)
EXTENDS Integers, Sequences, FiniteSets, TLC

\* ------------------------------------------------------------------ bounds
\* deepest working directory of the locator runs, and of the session runs
MaxDepth == 6
SessionDepth == 0
\* most Taskfile.yml files present at once, in the locator runs and in the
\* session runs
MaxFiles == 2
SessionFiles == 1

\* ------------------------------------------------------------- directories
CallerElsewhere == MaxDepth + 1
HomeElsewhere   == MaxDepth + 2
PackageDir      == MaxDepth + 3
ExplicitDir     == MaxDepth + 4
NoDir           == MaxDepth + 5

ChainDirs(depth) == 0..depth

AllDirs(depth) ==
    ChainDirs(depth) \cup {CallerElsewhere, HomeElsewhere, PackageDir, ExplicitDir}

\* ------------------------------------------------------------------- paths
\* Path(dir) / "Taskfile.yml"
TaskfileIn(d) == [kind |-> "abs", dir |-> d]

\* Path("Taskfile.yml"): relative, resolved against the working directory
RelativeTaskfile == [kind |-> "rel", dir |-> 0]

\* taskfile_path = None
NoPath == [kind |-> "none", dir |-> NoDir]

\* Path.exists()
Exists(p, fs) == p.kind # "none" /\ p.dir \in fs

\* Path.parent: the directory of an absolute path, "." for the relative one
Parent(p) == IF p.kind = "rel" THEN [kind |-> "rel", dir |-> 0]
             ELSE [kind |-> "dir", dir |-> p.dir]

VARIABLES
    cwdDepth,       \* number of ancestors of Path.cwd()
    callerDir,      \* os.environ.get('LATA_CALLER_DIR'), NoDir when unset/empty
    homeDir,        \* Path.home()
    files,          \* the directories that hold a Taskfile.yml
    argv,           \* sys.argv[1:] : "none", "info", "help" or "path"
    doc,            \* what yaml.safe_load yields for the resolved file
    pc,             \* position of the process
    taskfile_path,  \* TaskfileLauncher.taskfile_path
    tasks,          \* TaskfileLauncher.tasks, a sequence of [name, prompt]
    searched,       \* search_paths of the last _find_taskfile
    shown,          \* the candidate lines printed by show_search_info
    listEnd,        \* how the list-mode subprocess.run call of this pass ended
    listing,        \* what _display_tasks printed for the runner's listing
    menu,           \* the numbered menu printed by _select_task
    task_name,      \* run(): task_name, in this pass of the loop
    user_input,     \* run(): user_input, in this pass of the loop
    prompted,       \* the prompt issued by _get_task_input in this pass
    lastCall,       \* the run-mode subprocess.run call of this pass
    runEnd,         \* how that call ended
    result,         \* run(): result, in this pass of the loop
    report,         \* the success/failure line of this pass
    response,       \* what the user did at the prompt of the last step
    fault,          \* the exception that ended run(), if any
    status          \* the exit status of the process

envVars == <<cwdDepth, callerDir, homeDir, files, argv, doc>>
launcherVars == <<taskfile_path, tasks, searched, shown>>
loopVars == <<listEnd, listing, menu, task_name, user_input, prompted, lastCall, runEnd,
              result, report>>
vars == <<envVars, launcherVars, loopVars, pc, response, fault, status>>

\* -------------------------------------------------------------------- text
Digits == <<"0", "1", "2", "3", "4", "5", "6", "7", "8", "9">>

\* str(i) for i >= 0
RECURSIVE Str(_)
Str(i) == IF i < 10 THEN <<Digits[i + 1]>>
          ELSE Str(i \div 10) \o <<Digits[(i % 10) + 1]>>

DigitValue(c) == CHOOSE d \in 0..9 : Digits[d + 1] = c

\* int(s) for a non-empty string of decimal digits
RECURSIVE ParseInt(_)
ParseInt(s) == IF Len(s) = 1 THEN DigitValue(s[1])
          ELSE 10 * ParseInt(SubSeq(s, 1, Len(s) - 1)) + DigitValue(s[Len(s)])

IsSpace(c) == c = " "

RECURSIVE LStrip(_)
LStrip(s) == IF s # <<>> /\ IsSpace(Head(s)) THEN LStrip(Tail(s)) ELSE s

RECURSIVE RStrip(_)
RStrip(s) == IF s # <<>> /\ IsSpace(s[Len(s)])
             THEN RStrip(SubSeq(s, 1, Len(s) - 1)) ELSE s

\* str.strip()
Strip(s) == RStrip(LStrip(s))

LowerChar(c) == IF c = "Y" THEN "y" ELSE IF c = "N" THEN "n" ELSE c

\* str.lower()
Lower(s) == [i \in 1..Len(s) |-> LowerChar(s[i])]

\* sub in s
Contains(s, sub) ==
    \E i \in 0..(Len(s) - Len(sub)) : SubSeq(s, i + 1, i + Len(sub)) = sub

InSeq(x, seq) == \E i \in 1..Len(seq) : seq[i] = x

\* ---------------------------------------------------- rich.prompt, as used
\* What the user does at a prompt: types a line, presses Ctrl+C, or the
\* input stream ends.
Line(text) == [kind |-> "line", text |-> text]
Interrupt  == [kind |-> "interrupt", text |-> <<>>]
EndOfInput == [kind |-> "eof", text |-> <<>>]

\* Prompt.ask(..., choices=choices, default=default) on one response.  An
\* empty line returns the default as it is; any other line is stripped and
\* then checked against the choices.  "invalid" makes rich ask again.
PromptAsk(hasChoices, choices, hasDefault, default, resp) ==
    IF resp.kind = "interrupt" THEN [kind |-> "KeyboardInterrupt", value |-> <<>>]
    ELSE IF resp.kind = "eof" THEN [kind |-> "EOFError", value |-> <<>>]
    ELSE IF resp.text = <<>> /\ hasDefault THEN [kind |-> "value", value |-> default]
    ELSE IF hasChoices /\ ~InSeq(Strip(resp.text), choices)
         THEN [kind |-> "invalid", value |-> <<>>]
    ELSE [kind |-> "value", value |-> Strip(resp.text)]

\* Confirm.ask(..., default=default) on one response
ConfirmAsk(default, resp) ==
    IF resp.kind = "interrupt" THEN [kind |-> "KeyboardInterrupt", value |-> FALSE]
    ELSE IF resp.kind = "eof" THEN [kind |-> "EOFError", value |-> FALSE]
    ELSE IF resp.text = <<>> THEN [kind |-> "value", value |-> default]
    ELSE IF ~InSeq(Lower(Strip(resp.text)), <<<<"y">>, <<"n">>>>)
         THEN [kind |-> "invalid", value |-> FALSE]
    ELSE [kind |-> "value", value |-> (Lower(Strip(resp.text)) = <<"y">>)]

\* ----------------------------------------------------------------- locator
\* line 50: the walk stops once search_paths holds this many entries
FindLimit == 6
\* line 98: the listing stops once its own list holds this many entries
ShowLimit == 5

\* for parent in [current_dir] + list(current_dir.parents): append, and
\* break when the list has reached the limit
RECURSIVE WalkUp(_, _, _, _)
WalkUp(paths, k, depth, limit) ==
    IF k > depth THEN paths
    ELSE LET next == Append(paths, TaskfileIn(k))
         IN  IF Len(next) >= limit THEN next
             ELSE WalkUp(next, k + 1, depth, limit)

\* search_paths of _find_taskfile (lines 34-60)
SearchPaths(caller, depth, home) ==
    LET hinted == IF caller # NoDir THEN <<TaskfileIn(caller)>> ELSE <<>>
    IN  WalkUp(hinted, 0, depth, FindLimit)
            \o <<TaskfileIn(home), TaskfileIn(PackageDir)>>

\* the first path of the list that exists; NoPath when none does
RECURSIVE FirstExisting(_, _)
FirstExisting(paths, fs) ==
    IF paths = <<>> THEN NoPath
    ELSE IF Exists(Head(paths), fs) THEN Head(paths)
    ELSE FirstExisting(Tail(paths), fs)

\* _find_taskfile (lines 25-70)
FindTaskfile(caller, depth, home, fs) ==
    LET found == FirstExisting(SearchPaths(caller, depth, home), fs)
    IN  IF found # NoPath THEN found
        ELSE IF caller # NoDir THEN TaskfileIn(caller)
        ELSE RelativeTaskfile

\* the numbered candidate lines of show_search_info (lines 76-111)
ShowPaths(caller, depth, home) ==
    (IF caller # NoDir THEN <<TaskfileIn(caller)>> ELSE <<>>)
        \o WalkUp(<<>>, 0, depth, ShowLimit)
        \o <<TaskfileIn(home), TaskfileIn(PackageDir)>>

ShowSearchInfo(caller, depth, home, fs) ==
    LET paths == ShowPaths(caller, depth, home)
    IN  [i \in 1..Len(paths) |-> [path |-> paths[i], exists |-> Exists(paths[i], fs)]]

\* ------------------------------------------------------------------ loader
\* One entry of the tasks mapping: its key and its 'prompt' field
Task(name, declared, prompt) ==
    [name |-> name, declared |-> declared, prompt |-> prompt]

FreeTextPrompt == <<"T", "a", "g", "?">>
YesNoPrompt    == <<"O", "k", "?", " ", "(", "y", "/", "N", ")">>

\* The tasks mappings of the definition files considered, in file order
TaskMappings ==
    { <<>>,
      <<Task("default", FALSE, <<>>)>>,
      <<Task("default", FALSE, <<>>), Task("clean", TRUE, YesNoPrompt),
        Task("lint", TRUE, <<>>)>>,
      <<Task("build", TRUE, FreeTextPrompt), Task("default", FALSE, <<>>),
        Task("clean", TRUE, YesNoPrompt), Task("test", FALSE, <<>>)>> }

\* What yaml.safe_load makes of the file: a parse error, None for an empty
\* document, a mapping without 'tasks', or a mapping with 'tasks'
Docs ==
    { [kind |-> k, tasks |-> <<>>] : k \in {"malformed", "empty", "notasks"} }
        \cup { [kind |-> "tasks", tasks |-> m] : m \in TaskMappings }

\* _load_taskfile taking a missing file for one without tasks
LoadTaskfileIgnoresMissing(path, fs, d) ==
    IF ~Exists(path, fs) THEN [ok |-> TRUE, tasks |-> <<>>]
    ELSE IF d.kind \in {"malformed", "empty"} THEN [ok |-> FALSE, tasks |-> <<>>]
    ELSE IF d.kind = "notasks" THEN [ok |-> TRUE, tasks |-> <<>>]
    ELSE [ok |-> TRUE, tasks |-> d.tasks]

\* _load_taskfile (lines 115-125): ok is FALSE where it calls sys.exit(1)
LoadTaskfile(path, fs, d) ==
    IF ~Exists(path, fs) THEN [ok |-> FALSE, tasks |-> <<>>]
    ELSE IF d.kind \in {"malformed", "empty"} THEN [ok |-> FALSE, tasks |-> <<>>]
    ELSE IF d.kind = "notasks" THEN [ok |-> TRUE, tasks |-> <<>>]
    ELSE [ok |-> TRUE, tasks |-> d.tasks]

\* the constructor falling back to the search when the given path has no file
ConstructSearchesWhenMissing(given, caller, depth, home, fs, d) ==
    LET use  == given # NoPath /\ Exists(given, fs)
        path == IF use THEN given ELSE FindTaskfile(caller, depth, home, fs)
    IN  [path     |-> path,
         searched |-> IF use THEN <<>> ELSE SearchPaths(caller, depth, home),
         load     |-> LoadTaskfile(path, fs, d)]

\* TaskfileLauncher.__init__ (lines 20-23)
Construct(given, caller, depth, home, fs, d) ==
    LET path == IF given # NoPath THEN given
                ELSE FindTaskfile(caller, depth, home, fs)
    IN  [path     |-> path,
         searched |-> IF given # NoPath THEN <<>>
                      ELSE SearchPaths(caller, depth, home),
         load     |-> LoadTaskfile(path, fs, d)]

\* ---------------------------------------------------------- menu presenter
\* the runner's texts in list mode
ListStdout == <<"l", "i", "s", "t">>
ListStderr == <<"e", "r", "r">>
\* str(None)
NoneText   == <<"N", "o", "n", "e">>

\* How a subprocess.run call ends
Exited(code)  == [kind |-> "exit", code |-> code]
Interrupted   == [kind |-> "interrupt", code |-> 0]
OsError       == [kind |-> "oserror", code |-> 0]

\* _display_tasks without its except clause
DisplayTasksNoCatch(outcome) ==
    IF outcome.kind \in {"interrupt", "oserror"}
        THEN [kind |-> "KeyboardInterrupt", text |-> <<>>]
    ELSE IF outcome.code = 0 THEN [kind |-> "listing", text |-> NoneText]
    ELSE [kind |-> "failed", text |-> NoneText]

\* _display_tasks (lines 127-150): the runner is started without capturing
\* its streams, so result.stdout and result.stderr are None
DisplayTasks(outcome) ==
    IF outcome.kind = "interrupt" THEN [kind |-> "KeyboardInterrupt", text |-> <<>>]
    ELSE IF outcome.kind = "oserror" THEN [kind |-> "error", text |-> <<>>]
    ELSE IF outcome.code = 0 THEN [kind |-> "listing", text |-> NoneText]
    ELSE [kind |-> "failed", text |-> NoneText]

\* task_names without the filter on 'default'
TaskNamesKeepDefault(ts) == [i \in 1..Len(ts) |-> ts[i].name]

\* task_names (line 156)
TaskNames(ts) ==
    LET names == [i \in 1..Len(ts) |-> ts[i].name]
    IN  SelectSeq(names, LAMBDA n : n # "default")

\* the option lines printed at lines 163-166
Menu(ts) ==
    LET names == TaskNames(ts)
    IN  [i \in 1..Len(names) |-> [number |-> i, label |-> names[i]]]
            \o <<[number |-> 0, label |-> "exit"]>>

\* choices=[str(i) for i in range(len(task_names) + 1)] (line 171)
Choices(ts) == [i \in 1..(Len(TaskNames(ts)) + 1) |-> Str(i - 1)]

\* default="1" (line 172)
DefaultChoice == <<"1">>

\* _select_task without the test for "0": task_names[-1] is the last task
SelectTaskZeroIndexes(ts, resp) ==
    LET answer == PromptAsk(TRUE, Choices(ts), TRUE, DefaultChoice, resp)
        names  == TaskNames(ts)
    IN  IF answer.kind \in {"KeyboardInterrupt", "EOFError"}
            THEN [kind |-> "none", name |-> ""]
        ELSE IF answer.kind = "invalid" THEN [kind |-> "again", name |-> ""]
        ELSE IF ParseInt(answer.value) - 1 >= Len(names)
                \/ (ParseInt(answer.value) = 0 /\ names = <<>>)
            THEN [kind |-> "IndexError", name |-> ""]
        ELSE IF ParseInt(answer.value) = 0
            THEN [kind |-> "task", name |-> names[Len(names)]]
        ELSE [kind |-> "task", name |-> names[ParseInt(answer.value)]]

\* _select_task on one response at its prompt (lines 169-185)
SelectTask(ts, resp) ==
    LET answer == PromptAsk(TRUE, Choices(ts), TRUE, DefaultChoice, resp)
        names  == TaskNames(ts)
    IN  IF answer.kind \in {"KeyboardInterrupt", "EOFError"}
            THEN [kind |-> "none", name |-> ""]
        ELSE IF answer.kind = "invalid" THEN [kind |-> "again", name |-> ""]
        ELSE IF answer.value = <<"0">> THEN [kind |-> "none", name |-> ""]
        ELSE IF ParseInt(answer.value) - 1 >= Len(names)
            THEN [kind |-> "IndexError", name |-> ""]
        ELSE [kind |-> "task", name |-> names[ParseInt(answer.value)]]

\* --------------------------------------------------------- input collector
\* self.tasks.get(task_name, {})
TaskInfo(ts, name) ==
    IF \E i \in 1..Len(ts) : ts[i].name = name
    THEN ts[CHOOSE i \in 1..Len(ts) : ts[i].name = name]
    ELSE Task(name, FALSE, <<>>)

Collected(text, asked) == [kind |-> "input", value |-> text, prompt |-> asked]
NoInput(asked)         == [kind |-> "none", value |-> <<>>, prompt |-> asked]
AskAgain(asked)        == [kind |-> "again", value |-> <<>>, prompt |-> asked]

\* _get_task_input with an interrupt or end of input read as an empty answer
GetTaskInputNoSkip(ts, name, resp) ==
    LET info == TaskInfo(ts, name)
    IN  IF ~info.declared \/ info.prompt = <<>> THEN Collected(<<>>, "none")
        ELSE IF Contains(info.prompt, <<"y", "/", "N">>)
            THEN LET answer == ConfirmAsk(FALSE, resp)
                 IN  IF answer.kind = "invalid" THEN AskAgain("confirm")
                     ELSE Collected(IF answer.value THEN <<"y">> ELSE <<"n">>,
                                    "confirm")
        ELSE Collected(PromptAsk(FALSE, <<>>, FALSE, <<>>, resp).value, "text")

\* _get_task_input with the yes/no question defaulting to yes
GetTaskInputYesDefault(ts, name, resp) ==
    LET info == TaskInfo(ts, name)
    IN  IF ~info.declared \/ info.prompt = <<>> THEN Collected(<<>>, "none")
        ELSE IF Contains(info.prompt, <<"y", "/", "N">>)
            THEN LET answer == ConfirmAsk(TRUE, resp)
                 IN  IF answer.kind \in {"KeyboardInterrupt", "EOFError"}
                         THEN NoInput("confirm")
                     ELSE IF answer.kind = "invalid" THEN AskAgain("confirm")
                     ELSE Collected(IF answer.value THEN <<"y">> ELSE <<"n">>,
                                    "confirm")
        ELSE LET answer == PromptAsk(FALSE, <<>>, FALSE, <<>>, resp)
             IN  IF answer.kind \in {"KeyboardInterrupt", "EOFError"}
                     THEN NoInput("text")
                 ELSE Collected(answer.value, "text")

\* _get_task_input on one response (lines 187-208)
GetTaskInput(ts, name, resp) ==
    LET info == TaskInfo(ts, name)
    IN  IF ~info.declared \/ info.prompt = <<>> THEN Collected(<<>>, "none")
        ELSE IF Contains(info.prompt, <<"y", "/", "N">>)
            THEN LET answer == ConfirmAsk(FALSE, resp)
                 IN  IF answer.kind \in {"KeyboardInterrupt", "EOFError"}
                         THEN NoInput("confirm")
                     ELSE IF answer.kind = "invalid" THEN AskAgain("confirm")
                     ELSE Collected(IF answer.value THEN <<"y">> ELSE <<"n">>,
                                    "confirm")
        ELSE LET answer == PromptAsk(FALSE, <<>>, FALSE, <<>>, resp)
             IN  IF answer.kind \in {"KeyboardInterrupt", "EOFError"}
                     THEN NoInput("text")
                 ELSE Collected(answer.value, "text")

\* ---------------------------------------------------------------- executor
NoCall == [cmd |-> <<>>, cwd |-> Parent(NoPath), env |-> <<>>]

\* the call with the input appended even when it is empty
RunCallAlwaysAppends(path, name, input) ==
    [cmd |-> <<"task", "--taskfile", path, name, input>>,
     cwd |-> Parent(path),
     env |-> input]

\* the subprocess.run call of _run_task (lines 216-227); env is CLI_ARGS
RunCall(path, name, input) ==
    [cmd |-> <<"task", "--taskfile", path, name>>
                \o (IF input # <<>> THEN <<input>> ELSE <<>>),
     cwd |-> Parent(path),
     env |-> input]

\* _run_task returning 1 for every failing exit code
RunTaskFlattened(outcome) ==
    IF outcome.kind = "exit" THEN (IF outcome.code = 0 THEN 0 ELSE 1)
    ELSE IF outcome.kind = "interrupt" THEN 0
    ELSE 1

\* the value _run_task returns (lines 229-236)
RunTask(outcome) ==
    IF outcome.kind = "exit" THEN outcome.code
    ELSE IF outcome.kind = "interrupt" THEN 0
    ELSE 1

\* the report with the test on the exit code left out
ReportAlwaysSuccess(name, code) == [kind |-> "success", task |-> name, code |-> 0]

\* the line printed at lines 268-271
Report(name, code) ==
    IF code # 0 THEN [kind |-> "failure", task |-> name, code |-> code]
    ELSE [kind |-> "success", task |-> name, code |-> 0]

NoReport == [kind |-> "none", task |-> "", code |-> 0]

\* run with a failed task run again at once
AfterRunRetries(code) == IF code # 0 THEN "EXECUTING" ELSE "REPORTING"

\* where run is after _run_task has returned (lines 266-275): at the
\* continuation prompt, whatever the code
AfterRun(code) == "REPORTING"

\* the outer handlers of run with the interrupt taken for an error
BoundaryInterruptFails(exc) == 1

\* the outer handlers of run (lines 284-289): the status run returns for an
\* exception that reaches them
Boundary(exc) == IF exc = "KeyboardInterrupt" THEN 0 ELSE 1

\* the continuation prompt (lines 274-282): TRUE to go on, FALSE to stop
AskContinue(resp) ==
    LET answer == ConfirmAsk(TRUE, resp)
    IN  IF answer.kind \in {"KeyboardInterrupt", "EOFError"}
            THEN [kind |-> "stop"]
        ELSE IF answer.kind = "invalid" THEN [kind |-> "again"]
        ELSE IF answer.value THEN [kind |-> "continue"]
        ELSE [kind |-> "stop"]

\* ------------------------------------------------------ the user, the runner
MaxExitCode == 2

ExitCodes == 0..MaxExitCode

RunnerOutcomes == {Exited(c) : c \in ExitCodes} \cup {Interrupted, OsError}

NoResponse == [kind |-> "none", text |-> <<>>]

NotRun == [kind |-> "none", code |-> 0]

Signals == {Interrupt, EndOfInput}

\* the lines tried at the selection prompt of a menu with n tasks
ChoiceLines(n) ==
    {Line(Str(i)) : i \in 0..(n + 1)} \cup {Line(<<>>), Line(<<" ", "1">>)}

ConfirmLines ==
    {Line(t) : t \in {<<>>, <<"y">>, <<"n">>, <<"Y">>, <<" ", "y">>, <<"x">>}}

TextLines == {Line(t) : t \in {<<>>, <<"a">>, <<" ", "a", " ">>}}

\* ------------------------------------------------------------------- state
Running == 0 - 1

InitWithin(deepest, most) ==
    /\ cwdDepth \in 0..deepest
    /\ callerDir \in {NoDir, CallerElsewhere, 0}
    /\ homeDir \in {HomeElsewhere} \cup {d \in {2} : d <= cwdDepth}
    /\ files \in {fs \in SUBSET AllDirs(cwdDepth) : Cardinality(fs) <= most}
    /\ argv \in {"none", "info", "help", "path"}
    /\ doc \in Docs
    /\ pc = "main"
    /\ taskfile_path = NoPath
    /\ tasks = <<>>
    /\ searched = <<>>
    /\ shown = <<>>
    /\ listEnd = NotRun
    /\ listing = [kind |-> "none", text |-> <<>>]
    /\ menu = <<>>
    /\ task_name = ""
    /\ user_input = NoInput("none")
    /\ prompted = "none"
    /\ lastCall = NoCall
    /\ runEnd = NotRun
    /\ result = 0
    /\ report = NoReport
    /\ response = NoResponse
    /\ fault = "none"
    /\ status = Running

\* a session: the working directory is at most SessionDepth deep
Init == InitWithin(SessionDepth, SessionFiles)

\* a resolution: the working directory is at most MaxDepth deep
InitLocator == InitWithin(MaxDepth, MaxFiles)

Exit(code, why) ==
    /\ pc' = "exit"
    /\ status' = code
    /\ fault' = why

\* main, -h / --help (lines 312-323)
MainHelp ==
    /\ pc = "main"
    /\ argv = "help"
    /\ Exit(0, "none")
    /\ UNCHANGED <<envVars, launcherVars, loopVars, response>>

\* main, -i / --info / --search-info (lines 306-309)
MainInfo ==
    /\ pc = "main"
    /\ argv = "info"
    /\ LET made == Construct(NoPath, callerDir, cwdDepth, homeDir, files, doc)
       IN  /\ taskfile_path' = made.path
           /\ searched' = made.searched
           /\ tasks' = made.load.tasks
           /\ IF made.load.ok
              THEN /\ shown' = ShowSearchInfo(callerDir, cwdDepth, homeDir, files)
                   /\ Exit(0, "none")
              ELSE /\ shown' = shown
                   /\ Exit(1, "LoadError")
    /\ UNCHANGED <<envVars, loopVars, response>>

\* main with a path argument or without arguments: launch constructs the
\* launcher (lines 293-295, 325-330)
MainLaunch ==
    /\ pc = "main"
    /\ argv \in {"none", "path"}
    /\ LET given == IF argv = "path" THEN TaskfileIn(ExplicitDir) ELSE NoPath
           made  == Construct(given, callerDir, cwdDepth, homeDir, files, doc)
       IN  /\ taskfile_path' = made.path
           /\ searched' = made.searched
           /\ tasks' = made.load.tasks
           /\ IF ~made.load.ok THEN Exit(1, "LoadError")
              ELSE pc' = "launched" /\ UNCHANGED <<status, fault>>
    /\ UNCHANGED <<envVars, shown, loopVars, response>>

\* run, its existence check (lines 240-248)
RunStart ==
    /\ pc = "launched"
    /\ IF ~Exists(taskfile_path, files) THEN Exit(1, "Missing")
       ELSE pc' = "SELECTING" /\ UNCHANGED <<status, fault>>
    /\ UNCHANGED <<envVars, launcherVars, loopVars, response>>

\* the file as another process rewrites it
Rewritten ==
    [kind |-> "tasks", tasks |-> <<Task("deploy", TRUE, FreeTextPrompt)>>]

\* Another process removes or rewrites the resolved file while the launcher
\* runs; the launcher reads the file at lines 118-119 and 240 only.
FileChanges ==
    /\ pc \notin {"main", "exit"}
    /\ Exists(taskfile_path, files)
    /\ \/ files' = files \ {taskfile_path.dir} /\ doc' = doc
       \/ files' = files /\ doc # Rewritten /\ doc' = Rewritten
    /\ UNCHANGED <<cwdDepth, callerDir, homeDir, argv, launcherVars, loopVars,
                   pc, response, fault, status>>

\* One pass of the loop of run begins (line 252): _select_task, the
\* list-mode call of _display_tasks (lines 154, 127-150).  The variables that
\* describe a pass start afresh.
ListTasks ==
    /\ pc = "SELECTING"
    /\ \E outcome \in RunnerOutcomes :
          LET shownList == DisplayTasks(outcome)
          IN  /\ listEnd' = outcome
              /\ listing' = shownList
              /\ IF shownList.kind = "KeyboardInterrupt"
                 THEN /\ Exit(Boundary("KeyboardInterrupt"), "KeyboardInterrupt")
                      /\ menu' = menu
                 ELSE /\ pc' = "CHOOSING"
                      /\ menu' = Menu(tasks)
                      /\ UNCHANGED <<status, fault>>
    /\ task_name' = ""
    /\ user_input' = NoInput("none")
    /\ prompted' = "none"
    /\ lastCall' = NoCall
    /\ runEnd' = NotRun
    /\ result' = 0
    /\ report' = NoReport
    /\ response' = NoResponse
    /\ UNCHANGED <<envVars, launcherVars>>

\* _select_task, the selection prompt (lines 158-185), and what run does
\* with its value (lines 252-256)
ChooseTask ==
    /\ pc = "CHOOSING"
    /\ \E resp \in ChoiceLines(Len(TaskNames(tasks))) \cup Signals :
          LET chosen == SelectTask(tasks, resp)
          IN  /\ response' = resp
              /\ CASE chosen.kind = "again" ->
                        UNCHANGED <<pc, status, fault, task_name>>
                   [] chosen.kind = "none" ->
                        Exit(0, "none") /\ task_name' = task_name
                   [] chosen.kind = "IndexError" ->
                        /\ Exit(Boundary("IndexError"), "IndexError")
                        /\ task_name' = task_name
                   [] chosen.kind = "task" ->
                        /\ pc' = "COLLECTING"
                        /\ task_name' = chosen.name
                        /\ UNCHANGED <<status, fault>>
    /\ UNCHANGED <<envVars, launcherVars, listEnd, listing, menu, user_input, prompted,
                   lastCall, runEnd, result, report>>

\* _get_task_input and lines 259-263 of run
CollectInput ==
    /\ pc = "COLLECTING"
    /\ \E resp \in ConfirmLines \cup TextLines \cup Signals \cup {NoResponse} :
          LET got == GetTaskInput(tasks, task_name, resp)
          IN  /\ (resp = NoResponse) <=> (got.prompt = "none")
              /\ response' = resp
              /\ prompted' = got.prompt
              /\ IF got.kind = "again" THEN UNCHANGED <<pc, user_input>>
                 ELSE /\ user_input' = got
                      /\ pc' = IF got.kind = "none" THEN "SELECTING"
                               ELSE "EXECUTING"
    /\ UNCHANGED <<envVars, launcherVars, listEnd, listing, menu, task_name, lastCall,
                   runEnd, result, report, fault, status>>

\* _run_task and lines 266-271 of run
ExecuteTask ==
    /\ pc = "EXECUTING"
    /\ \E outcome \in RunnerOutcomes :
          /\ lastCall' = RunCall(taskfile_path, task_name, user_input.value)
          /\ runEnd' = outcome
          /\ result' = RunTask(outcome)
          /\ report' = Report(task_name, RunTask(outcome))
          /\ pc' = AfterRun(RunTask(outcome))
    /\ response' = NoResponse
    /\ UNCHANGED <<envVars, launcherVars, listEnd, listing, menu, task_name, user_input,
                   prompted, fault, status>>

\* the continuation prompt of run (lines 273-282, 291)
Continue ==
    /\ pc = "REPORTING"
    /\ \E resp \in ConfirmLines \cup Signals :
          LET next == AskContinue(resp)
          IN  /\ response' = resp
              /\ CASE next.kind = "again" -> UNCHANGED <<pc, status, fault>>
                   [] next.kind = "continue" ->
                        pc' = "SELECTING" /\ UNCHANGED <<status, fault>>
                   [] next.kind = "stop" -> Exit(0, "none")
    /\ UNCHANGED <<envVars, launcherVars, loopVars>>

Next ==
    \/ MainHelp
    \/ MainInfo
    \/ MainLaunch
    \/ RunStart
    \/ FileChanges
    \/ ListTasks
    \/ ChooseTask
    \/ CollectInput
    \/ ExecuteTask
    \/ Continue

Spec == Init /\ [][Next]_vars

\* resolution alone, over deep working directories
NextLocator ==
    \/ MainHelp
    \/ MainInfo
    \/ MainLaunch
    \/ RunStart

SpecLocator == InitLocator /\ [][NextLocator]_vars

\* ------------------------------------------------- the specialized variant
\* One member of the vokein module's namespace: its collection name and the
\* first character of that name
Registered(name, first) == [name |-> name, first |-> first]

\* ns.tasks of Collection.from_module (lines 18-40, 50): the four @task
\* functions of the module, under invoke's dashed names
ModuleTasks ==
    << Registered("standard-multi", "s"), Registered("standard-single", "s"),
       Registered("no-artist-mode", "n"), Registered("no-sensitive-convert", "n") >>

RECURSIVE PublicTasks(_)
\* the filter of lines 53-54: not name.startswith('_')
PublicTasks(members) ==
    IF members = <<>> THEN <<>>
    ELSE IF Head(members).first = "_" THEN PublicTasks(Tail(members))
    ELSE <<Task(Head(members).name, TRUE, <<>>)>> \o PublicTasks(Tail(members))

\* the table of lines 58-72: a row per task, then the exit row
VokeinTable(ts) ==
    [i \in 1..Len(ts) |-> [number |-> i, label |-> ts[i].name]]
        \o <<[number |-> 0, label |-> "exit"]>>

\* choices=[str(i) for i in range(len(tasks) + 1)] (line 78)
VokeinChoices(ts) == [i \in 1..(Len(ts) + 1) |-> Str(i - 1)]

\* default="0" (line 79)
VokeinDefault == <<"0">>

\* lines 76-86: the prompt, outside any try, and what is done with the choice
VokeinSelect(ts, resp) ==
    LET answer == PromptAsk(TRUE, VokeinChoices(ts), TRUE, VokeinDefault, resp)
    IN  IF answer.kind \in {"KeyboardInterrupt", "EOFError"}
            THEN [kind |-> "raise", name |-> "", exc |-> answer.kind]
        ELSE IF answer.kind = "invalid" THEN [kind |-> "again", name |-> "", exc |-> ""]
        ELSE IF answer.value = <<"0">> THEN [kind |-> "return", name |-> "", exc |-> ""]
        ELSE [kind |-> "task", name |-> ts[ParseInt(answer.value)].name, exc |-> ""]

\* lines 87-94: what is printed after task_obj(Context()), whose
\* subprocess.run(cmd, shell=True) ignores the exit code
VokeinReport(name, outcome) ==
    IF outcome.kind = "interrupt" THEN [kind |-> "interrupted", task |-> name, code |-> 0]
    ELSE IF outcome.kind = "oserror" THEN [kind |-> "failure", task |-> name, code |-> 0]
    ELSE [kind |-> "success", task |-> name, code |-> 0]

\* vokein has been called; nothing of the Taskfile launcher is in play
InitVokein ==
    /\ cwdDepth = 0
    /\ callerDir = NoDir
    /\ homeDir = HomeElsewhere
    /\ files = {}
    /\ argv = "none"
    /\ doc = [kind |-> "empty", tasks |-> <<>>]
    /\ pc = "vokein"
    /\ taskfile_path = NoPath
    /\ tasks = <<>>
    /\ searched = <<>>
    /\ shown = <<>>
    /\ listEnd = NotRun
    /\ listing = [kind |-> "none", text |-> <<>>]
    /\ menu = <<>>
    /\ task_name = ""
    /\ user_input = NoInput("none")
    /\ prompted = "none"
    /\ lastCall = NoCall
    /\ runEnd = NotRun
    /\ result = 0
    /\ report = NoReport
    /\ response = NoResponse
    /\ fault = "none"
    /\ status = Running

vokeinFixed == <<envVars, taskfile_path, searched, shown, listEnd, listing,
                 user_input, prompted, lastCall, result>>

\* lines 46-54: the task list is built once, before the loop
VokeinLoad ==
    /\ pc = "vokein"
    /\ tasks' = PublicTasks(ModuleTasks)
    /\ pc' = "VK_SHOWING"
    /\ UNCHANGED <<vokeinFixed, menu, task_name, runEnd, report, response,
                   fault, status>>

\* lines 58-73: the table is printed at the top of every pass
VokeinShow ==
    /\ pc = "VK_SHOWING"
    /\ menu' = VokeinTable(tasks)
    /\ response' = NoResponse
    /\ pc' = "VK_CHOOSING"
    /\ UNCHANGED <<vokeinFixed, tasks, task_name, runEnd, report, fault, status>>

\* lines 76-86: an exception of the prompt leaves vokein, and sys.exit at
\* line 97 gets no value from it
VokeinChoose ==
    /\ pc = "VK_CHOOSING"
    /\ \E resp \in ChoiceLines(Len(tasks)) \cup Signals :
          LET chosen == VokeinSelect(tasks, resp)
          IN  /\ response' = resp
              /\ CASE chosen.kind = "again" ->
                        UNCHANGED <<pc, status, fault, task_name>>
                   [] chosen.kind = "return" ->
                        Exit(0, "none") /\ task_name' = task_name
                   [] chosen.kind = "raise" ->
                        /\ pc' = "raised"
                        /\ fault' = chosen.exc
                        /\ UNCHANGED <<status, task_name>>
                   [] chosen.kind = "task" ->
                        /\ pc' = "VK_EXECUTING"
                        /\ task_name' = chosen.name
                        /\ UNCHANGED <<status, fault>>
    /\ UNCHANGED <<vokeinFixed, tasks, menu, runEnd, report>>

\* lines 87-94: the task runs; an interrupt and any error are caught and the
\* loop goes on
VokeinExecute ==
    /\ pc = "VK_EXECUTING"
    /\ \E outcome \in RunnerOutcomes :
          /\ runEnd' = outcome
          /\ report' = VokeinReport(task_name, outcome)
    /\ pc' = "VK_SHOWING"
    /\ UNCHANGED <<vokeinFixed, tasks, menu, task_name, response, fault, status>>

NextVokein ==
    \/ VokeinLoad
    \/ VokeinShow
    \/ VokeinChoose
    \/ VokeinExecute

SpecVokein == InitVokein /\ [][NextVokein]_vars

\* ================================================================== claims
\* the documented depth of the upward walk (lines 49 and 320: 5 levels)
AncestorBound == 5

Min(a, b) == IF a < b THEN a ELSE b

\* the priority order of the locator's contract: the caller directory if
\* set, the working directory, its nearest AncestorBound ancestors, the home
\* directory, the package directory
PriorityOrder(caller, depth, home) ==
    (IF caller # NoDir THEN <<TaskfileIn(caller)>> ELSE <<>>)
        \o [k \in 1..(Min(depth, AncestorBound) + 1) |-> TaskfileIn(k - 1)]
        \o <<TaskfileIn(home), TaskfileIn(PackageDir)>>

Resolved == pc # "main" /\ argv \in {"none", "info"}

\* C1: without an explicit path, the resolved path is the first existing
\* candidate in the order caller directory, working directory, ancestors,
\* home, package; when no candidate exists it is the caller directory's
\* Taskfile.yml if the hint is set and the relative Taskfile.yml otherwise.
C1_FirstExistingInOrder ==
    Resolved =>
        LET order == PriorityOrder(callerDir, cwdDepth, homeDir)
            existing == {i \in 1..Len(order) : Exists(order[i], files)}
        IN  IF existing # {}
            THEN taskfile_path =
                     order[CHOOSE i \in existing : \A j \in existing : i <= j]
            ELSE taskfile_path = IF callerDir # NoDir THEN TaskfileIn(callerDir)
                                 ELSE RelativeTaskfile

\* C2: the candidates listed by show_search_info are exactly the candidates
\* examined by _find_taskfile, in the same order, each with the existence
\* flag the resolution saw.
C2_ShowMatchesFind ==
    shown # <<>> =>
        /\ [i \in 1..Len(shown) |-> shown[i].path] = searched
        /\ \A i \in 1..Len(shown) : shown[i].exists = Exists(shown[i].path, files)

\* the task names the menu on display offers
Offered == {menu[i].label : i \in 1..(Len(menu) - 1)}

\* C3: the choice _select_task acts on lies in [0, N] for every mapping,
\* N = 0 included, and every response, the empty one included: it never
\* faults on an index out of range, and a task it returns is in the menu.
C3_ChoiceInRange ==
    /\ fault # "IndexError"
    /\ pc = "COLLECTING" => task_name \in Offered

\* C4: the menu is the keys of the mapping other than "default", in the
\* mapping's order, numbered 1..N, followed by the entry 0 for exit; the
\* choice of number i yields the i-th of those keys.
C4_MenuIsKeysMinusDefault ==
    pc \in {"CHOOSING", "COLLECTING"} =>
        LET N == Len(menu) - 1
            keyAt(i) == CHOOSE j \in 1..Len(tasks) : tasks[j].name = menu[i].label
        IN  /\ N >= 0
            /\ menu[N + 1].number = 0
            /\ \A i \in 1..N :
                  /\ menu[i].number = i
                  /\ menu[i].label # "default"
                  /\ \E j \in 1..Len(tasks) : tasks[j].name = menu[i].label
            /\ \A j \in 1..Len(tasks) :
                  tasks[j].name # "default" => tasks[j].name \in Offered
            /\ \A i1, i2 \in 1..N : i1 < i2 => keyAt(i1) < keyAt(i2)
            /\ \A i \in 1..N :
                  (pc = "COLLECTING" /\ response = Line(Str(i)))
                      => task_name = menu[i].label

\* C4 witness: in a mapping whose second key is "default", choice 2 gives
\* the third key
C4_Witness ==
    /\ pc = "COLLECTING"
    /\ Len(tasks) = 4 /\ tasks[2].name = "default"
    /\ response = Line(<<"2">>)
    /\ task_name = tasks[3].name

\* C5: an interrupt or an end of input at the collector's prompt (free text
\* or yes/no) skips the task: the runner is not called, the loop goes back to
\* SELECTING and the process does not stop.
C5_InterruptSkipsTask ==
    [][(pc = "COLLECTING" /\ response' \in Signals)
          => /\ pc' = "SELECTING"
             /\ lastCall' = NoCall /\ runEnd' = NotRun
             /\ status' = Running]_vars

\* C5 witness: back at the menu after an interrupt at the free-text prompt
C5_Witness ==
    /\ pc = "SELECTING"
    /\ response = Interrupt
    /\ prompted = "text"
    /\ lastCall = NoCall

\* C6: at the selection prompt, 0, an interrupt or an end of input ends the
\* loop with status 0, the collector and the runner not having been used;
\* any other valid choice goes to COLLECTING with the chosen task.
C6_SelectionOutcome ==
    [][pc = "CHOOSING" =>
          LET names == [i \in 1..(Len(menu) - 1) |-> menu[i].label]
          IN  /\ (response' \in Signals \/ response' = Line(<<"0">>))
                    => /\ pc' = "exit" /\ status' = 0
                       /\ prompted' = "none" /\ lastCall' = NoCall
              /\ \A i \in 1..Len(names) :
                    response' = Line(Str(i))
                        => /\ pc' = "COLLECTING" /\ task_name' = names[i]
                           /\ status' = Running]_vars

\* C6 witness: the session ended by 0 at the first menu
C6_Witness ==
    /\ pc = "exit" /\ status = 0
    /\ response = Line(<<"0">>)
    /\ Len(menu) = 4
    /\ lastCall = NoCall

\* a step of the program, not a change made to the file behind its back
ProgramStep == files' = files /\ doc' = doc

\* C7: whatever code the executor returns, the loop goes to REPORTING and
\* reports failure with that code when it is not 0 and success when it is;
\* at the continuation prompt "no", an interrupt or an end of input stops
\* the loop with status 0 and "yes" goes back to SELECTING.
C7_ReportThenContinue ==
    [][/\ (pc = "EXECUTING" /\ ProgramStep) =>
             /\ pc' = "REPORTING"
             /\ report'.task = task_name
             /\ (result' # 0) => (report'.kind = "failure" /\ report'.code = result')
             /\ (result' = 0) => (report'.kind = "success")
       /\ pc = "REPORTING" =>
             /\ (response' \in Signals \/ response' = Line(<<"n">>))
                   => (pc' = "exit" /\ status' = 0)
             /\ (response' = Line(<<"y">>))
                   => (pc' = "SELECTING" /\ status' = Running)]_vars

\* C7 witness: the runner exited with 2, the failure was reported with 2, the
\* user answered no and the session ended with status 0
C7_Witness ==
    /\ pc = "exit" /\ status = 0
    /\ runEnd = Exited(2)
    /\ report.kind = "failure" /\ report.code = 2
    /\ response = Line(<<"n">>)

\* C8: _run_task returns the runner's exit code unchanged, 0 when an
\* interrupt arrives while the runner runs, and 1, without raising, for
\* every other failure of the call.
C8_RunTaskResult ==
    runEnd # NotRun =>
        /\ runEnd.kind = "exit" => result = runEnd.code
        /\ runEnd.kind = "interrupt" => result = 0
        /\ runEnd.kind = "oserror" => result = 1
        /\ pc = "REPORTING" => (fault = "none" /\ status = Running)

\* C8 witness: the runner exited with 2 and 2 is the result
C8_Witness ==
    /\ pc = "REPORTING"
    /\ runEnd = Exited(2)
    /\ result = 2

\* C9: the runner is called with [runner, --taskfile, resolved path, task]
\* followed by the input if and only if the input is not empty, in the
\* directory of the resolved path, with CLI_ARGS set to the input in every
\* case.
C9_RunnerInvocation ==
    runEnd # NotRun =>
        LET s == user_input.value
        IN  /\ SubSeq(lastCall.cmd, 1, 4)
                  = <<"task", "--taskfile", taskfile_path, task_name>>
            /\ (s # <<>>) => (Len(lastCall.cmd) = 5 /\ lastCall.cmd[5] = s)
            /\ (s = <<>>) => (Len(lastCall.cmd) = 4)
            /\ lastCall.cwd.dir = taskfile_path.dir
            /\ lastCall.env = s

\* C9 witness: a task run with an empty answer to its free-text prompt
C9_Witness ==
    /\ pc = "REPORTING"
    /\ prompted = "text"
    /\ user_input.value = <<>>
    /\ Len(lastCall.cmd) = 4
    /\ lastCall.env = <<>>

YesLines == {Line(<<"y">>), Line(<<"Y">>), Line(<<" ", "y">>)}
NoLines  == {Line(<<"n">>), Line(<<>>)}

\* what the collector returns for a task without prompt and for a yes/no
\* prompt
NoPromptAndYesNoCases ==
    LET info == TaskInfo(tasks, task_name)
    IN  /\ (~info.declared \/ info.prompt = <<>>)
              => /\ user_input.value = <<>>
                 /\ prompted = "none" /\ response = NoResponse
        /\ (info.declared /\ Contains(info.prompt, <<"y", "/", "N">>))
              => /\ prompted = "confirm"
                 /\ response \in YesLines => user_input.value = <<"y">>
                 /\ response \in NoLines => user_input.value = <<"n">>

\* v is t without its leading and trailing spaces
IsTrimOf(v, t) ==
    /\ v = <<>> \/ (v[1] # " " /\ v[Len(v)] # " ")
    /\ \E i, j \in 0..Len(t) :
          /\ i + Len(v) + j = Len(t)
          /\ SubSeq(t, i + 1, i + Len(v)) = v
          /\ \A k \in (1..i) \cup ((Len(t) - j + 1)..Len(t)) : t[k] = " "

\* C10 as stated: "" without a prompt for a task that declares none, "y" or
\* "n" for a y/N prompt, and otherwise the raw text entered.
C10_ReturnsRawText ==
    pc = "EXECUTING" =>
        /\ NoPromptAndYesNoCases
        /\ prompted = "text" => user_input.value = response.text

\* C10 amended: "" without a prompt for a task that declares none (or an
\* empty one), "y" or "n" for a y/N prompt, and otherwise the text entered
\* with its leading and trailing whitespace removed.
C10_ReturnsStrippedText ==
    pc = "EXECUTING" =>
        /\ NoPromptAndYesNoCases
        /\ TaskInfo(tasks, task_name).prompt = FreeTextPrompt => prompted = "text"
        /\ prompted = "text" => IsTrimOf(user_input.value, response.text)

\* C10 witness: a padded answer at the free-text prompt
C10_Witness ==
    /\ pc = "EXECUTING"
    /\ prompted = "text"
    /\ response = Line(<<" ", "a", " ">>)
    /\ user_input.value = <<"a">>

\* the process ended with status 1 on a fatal message, nothing of the menu
\* or of the runner's listing having been shown
EndedFatally ==
    /\ pc' = "exit" /\ status' = 1 /\ fault' \in {"LoadError", "Missing"}
    /\ menu' = <<>> /\ listing'.kind = "none"

\* C11: when the definition file does not exist at the resolved path, found
\* by the search or given explicitly, the process ends with exit code 1 after
\* a fatal message; the menu and the runner's list mode are never reached.
C11_MissingFileIsFatal ==
    [][/\ (pc = "main" /\ argv \in {"none", "path"}
              /\ ~Exists(taskfile_path', files))
             => EndedFatally
       /\ (pc = "launched" /\ pc' # "launched" /\ ~Exists(taskfile_path, files))
             => EndedFatally]_vars

\* C11 witness: an explicit path without a file behind it
C11_Witness ==
    /\ argv = "path" /\ taskfile_path = TaskfileIn(ExplicitDir)
    /\ ExplicitDir \notin files
    /\ pc = "exit" /\ status = 1 /\ fault = "LoadError"

\* C12: with an info flag the candidate list is printed and the process
\* exits with code 0 in every filesystem state, also when no candidate
\* exists or the file found cannot be parsed.
C12_InfoListsAndExitsZero ==
    (argv = "info" /\ pc = "exit") => (status = 0 /\ shown # <<>>)

\* C13: a file that parses and has no top-level tasks key, the empty
\* document included, loads as the empty mapping without error or exit.
C13_NoTasksKeyLoadsEmpty ==
    (argv # "help" /\ Exists(taskfile_path, files)
         /\ doc.kind \in {"empty", "notasks"})
        => (fault # "LoadError" /\ tasks = <<>>)

\* the list-mode invocation ended badly: the runner exited with a non-zero
\* code, or subprocess.run itself raised an error
ListFailed(end) ==
    \/ end.kind = "exit" /\ end.code # 0
    \/ end.kind = "oserror"

\* C14: when the runner's list-mode invocation fails (non-zero exit, or the
\* invocation raises an error), the failure is printed, the session does not
\* end, and the menu built and the prompt reached are the ones a successful
\* listing gives: one entry per non-default key of the file, plus the exit
\* entry, with the selection prompt next.
C14_ListFailureKeepsMenu ==
    [][(pc = "SELECTING" /\ pc' # "SELECTING" /\ ListFailed(listEnd'))
          => /\ pc' = "CHOOSING"
             /\ status' = Running
             /\ listing'.kind \in {"failed", "error"}
             /\ menu' = Menu(tasks)
             /\ Len(menu') = Len(TaskNames(tasks)) + 1]_vars

C14_Witness ==
    /\ pc = "CHOOSING"
    /\ listEnd.kind = "oserror"
    /\ listing.kind = "error"
    /\ Len(menu) = 3

\* the positions of the session loop of run
LoopPositions == {"SELECTING", "CHOOSING", "COLLECTING", "EXECUTING", "REPORTING"}

\* C15: an error other than an interrupt raised inside the session loop
\* reaches the outer handlers of run and makes run return 1; an interrupt
\* reaching them makes run return 0; run always ends with a status, never
\* with an exception.
C15_BoundaryCatches ==
    [][(pc \in LoopPositions /\ pc' = "exit")
          => /\ status' \in {0, 1}
             /\ fault' \in {"none", "KeyboardInterrupt", "IndexError"}
             /\ (fault' = "IndexError") => (status' = 1)
             /\ (fault' = "KeyboardInterrupt") => (status' = 0)
             /\ (fault' = "none") => (status' = 0)]_vars

C15_Witness ==
    /\ pc = "exit"
    /\ fault = "KeyboardInterrupt"
    /\ listEnd = Interrupted
    /\ status = 0

\* C17: nothing is retried automatically.  The runner is started in run
\* mode only from EXECUTING, only when it has not been started since the
\* last menu, and the step leads to the report; EXECUTING is entered only
\* from a collection, a collection only from a selection of an offered
\* task at the prompt; a skipped collection and a finished report lead back
\* to the menu or out, never to the runner.
C17_NoAutomaticRetry ==
    [][/\ (runEnd' # runEnd /\ runEnd' # NotRun)
            => (pc = "EXECUTING" /\ runEnd = NotRun /\ pc' = "REPORTING")
       /\ (pc' = "EXECUTING" /\ pc # "EXECUTING")
            => (pc = "COLLECTING" /\ runEnd = NotRun /\ user_input'.kind = "input")
       /\ (pc' = "COLLECTING" /\ pc # "COLLECTING")
            => (pc = "CHOOSING" /\ response'.kind = "line" /\ task_name' \in Offered)
       /\ (pc = "COLLECTING" /\ response'.kind \in {"interrupt", "eof"})
            => (pc' = "SELECTING" /\ runEnd' = NotRun)
       /\ (pc = "REPORTING")
            => (pc' \in {"REPORTING", "SELECTING", "exit"} /\ runEnd' = runEnd)
       /\ (pc = "EXECUTING") => (pc' \in {"EXECUTING", "REPORTING"})]_vars

C17_Witness ==
    /\ pc = "REPORTING"
    /\ runEnd = Exited(1)
    /\ report.kind = "failure"
    /\ response = NoResponse

\* C18: after construction no operation of the session changes the resolved
\* path or the loaded mapping, whatever happens to the file; a path given by
\* the caller is the resolved path, and no search is made for it.
C18_ResolvedOnce ==
    [][/\ (pc # "main") => (taskfile_path' = taskfile_path /\ tasks' = tasks
                                /\ searched' = searched)
       /\ (pc = "main" /\ argv = "path")
            => (taskfile_path' = TaskfileIn(ExplicitDir) /\ searched' = <<>>)]_vars

C18_Witness ==
    /\ argv = "path"
    /\ taskfile_path = TaskfileIn(ExplicitDir)
    /\ searched = <<>>
    /\ pc = "REPORTING"
    /\ doc = Rewritten
    /\ tasks # <<>>
    /\ tasks # Rewritten.tasks

\* the entries of the examined list that come from the upward walk: all of
\* it but the hint's entry, the home entry and the package entry
WalkEntries == Len(searched) - 2 - (IF callerDir # NoDir THEN 1 ELSE 0)

\* C19: from a working directory with at least AncestorBound ancestors,
\* _find_taskfile examines the working directory and exactly its
\* AncestorBound nearest ancestors, with the caller-directory hint set or not.
C19_WalkCoversFiveAncestors ==
    (Resolved /\ cwdDepth >= AncestorBound) => (WalkEntries = AncestorBound + 1)

\* C20: what _display_tasks prints is the runner's captured standard output
\* when the runner exits 0, and an error text containing the runner's
\* standard error when it exits with another code.
C20_ListingShowsRunnerText ==
    /\ (listing.kind = "listing") => (listing.text = ListStdout)
    /\ (listing.kind = "failed") => Contains(listing.text, ListStderr)

\* C16: in vokein an interrupt or an end of input at the task-selection
\* prompt is a controlled stop or a controlled local transition: after it
\* vokein is back at its menu or has returned a status, and no exception has
\* left vokein.
C16_VokeinPromptSignalControlled ==
    (response.kind \in {"interrupt", "eof"})
        => (pc \in {"VK_SHOWING", "VK_CHOOSING", "exit"} /\ fault = "none")


====
